---- MODULE Spec2Model ----
(***************************************************************************)
(* A model of the facolos ETL pipeline engine: the MISA CRM extractor      *)
(* (token cache, request retry, page loop), the loaders (append, merge)    *)
(* and the production orchestrator.  Each layer has its own specification  *)
(* over one shared set of variables; a layer that a specification does not *)
(* exercise keeps its initial value.                                       *)
(***************************************************************************)
EXTENDS Integers, Sequences, FiniteSets, TLC

(***************************************************************************)
(* Bounds of the model and program constants.                              *)
(***************************************************************************)
\* the clock runs over 0..MaxTime
MaxTime == 2
\* tokens the account endpoint can mint in one behaviour
MaxIssued == 3
\* settings.misa_crm_token_refresh_buffer: read by the extractor, set by the
\* deployment's environment (config/settings.py does not fix a value)
misa_crm_token_refresh_buffer == 1
\* settings.api_retry_attempts
api_retry_attempts == 3
\* settings.api_retry_delay
api_retry_delay == 5
\* lifetime assumed when a token carries no exp claim: timedelta(hours=1)
DefaultLifetime == 3600

\* largest configured page size and page-size cap the model tries
MaxPageSize == 2
\* most records a remote collection holds
MaxRemote == 4
\* largest max_pages argument the model tries
MaxPagesArg == 3
\* key values of the rows of a DataFrame in the loader specification
MaxKey == 2
\* rows of a DataFrame in the loader specification
MaxBatch == 2
\* loader calls in a behaviour of the loader specification
MaxLoads == 2
\* production cycles in a behaviour
MaxCycles == 2
\* failures the environment produces in a behaviour of the production cycle
MaxFaults == 1
\* records of a collection in the incremental extraction
MaxIncRecords == 2
\* largest age, in hours, of a modified_date, and largest lookback
MaxAge == 2
\* orders in the list handed to a transform call
MaxRaw == 2
\* uuid4 values generated in a behaviour of the transformer specification
MaxUuids == 3
\* record_cycle_metrics calls in a behaviour of the monitor specification
MaxRecorded == 4
\* largest total_records handed to the monitor
MaxTotal == 1
\* token values the TikTok authorization endpoint hands out
MaxAuthTokens == 2
\* shop ciphers the TikTok shops endpoint can answer with
MaxCiphers == 2

None == -1

VARIABLES
    \* ---- MISACRMExtractor: token cache ----
    access_token,       \* None or the id of the cached token
    token_expires_at,   \* None or the time the cached token expires
    now,                \* datetime.now()
    issued,             \* tokens minted so far by the account endpoint
    lastGet,            \* record of the most recent get_access_token call
    \* ---- MISACRMExtractor._make_request_with_retry ----
    rpc,                \* "idle" | "attempt" | "done"
    attempt,            \* loop variable of range(api_retry_attempts)
    resps,              \* answers to the page requests sent in this call
    response,           \* "unset" | "ok" (a Response) | "none" (None)
    tokenReqs,          \* token requests sent in this call
    forced,             \* get_access_token(force_refresh=True) calls in this call
    sleeps,             \* time.sleep calls of this call: <<cause, seconds>>
    \* ---- settings and the remote API ----
    page_size,          \* settings.misa_crm_page_size
    max_page_size,      \* settings.misa_crm_max_page_size
    remote,             \* source -> number of records of its collection
    \* ---- MISACRMExtractor.extract_all_data_from_endpoint ----
    epc,                \* "idle" | "loop" | "done" | "raised"
    endpoint_name,      \* the endpoint argument
    max_pages,          \* the max_pages argument (None: not given)
    page,               \* the page counter
    all_data,           \* the records collected so far
    extLog,             \* page requests and rate-limit sleeps of this call
    fetchFailed,        \* a page request of this call came back as None
    \* ---- the staging database and the loaders ----
    db,                 \* staging table -> its rows, in insertion order
    tblUnique,          \* the staging tables carry a unique key constraint
    db_columns,         \* column names of the staging tables (INFORMATION_SCHEMA)
    df,                 \* the DataFrame handed to the loader
    loads,              \* the loader calls made so far, one record each
    \* ---- ProductionETLOrchestrator and its ProductionETLMonitor ----
    components,         \* how many of the six components are constructed
    cycle_count,        \* self.cycle_count
    opc,                \* "idle" | "misa" | "tiktok" | "quality" | "finalize" | "returned"
    idx,                \* position in the priority list of MISA endpoints
    misa_results,       \* endpoint -> its entry of misa_results
    tiktok_result,      \* the 'orders' entry of tiktok_results
    errors,             \* cycle_results['errors']
    data_quality,       \* cycle_results['data_quality']
    total_records,      \* cycle_results['total_records']
    success,            \* cycle_results['success']
    consecutive_failures,   \* monitor.consecutive_failures
    consecutive_no_data,    \* monitor.consecutive_no_data
    hist,               \* endpoint -> what happened while it was processed
    faults,             \* failures the environment has produced so far
    runs,               \* one record for each cycle that has returned
    \* ---- MISACRMExtractor.extract_incremental_data ----
    modified,           \* record -> its modified_date as the API delivers it
    lookback_hours,     \* the lookback_hours argument
    ipc,                \* "idle" | "extract" | "done" | "raised"
    filtered_data,      \* the list the call returns
    \* ---- MISACRMTransformer and TikTokShopOrderTransformer ----
    misa_batch_id,      \* MISACRMTransformer.batch_id (None until set_batch_id)
    tiktok_batch_id,    \* TikTokShopOrderTransformer.batch_id (None: no instance)
    uuids,              \* uuid4 values generated so far
    lastTransform,      \* record of the most recent transform call
    stamped,            \* transformer -> the batch_ids stamped by its last two
                        \* calls that were handed no batch_id
    \* ---- TikTokAuthenticator ----
    tiktok_access_token,    \* self.access_token (0: settings.tiktok_access_token)
    tiktok_refresh_token,   \* self.refresh_token (0: settings.tiktok_refresh_token)
    shop_cipher,            \* self.shop_cipher (0: the empty string)
    lastAuth                \* record of the most recent authenticator call

reqVars == <<access_token, token_expires_at, now, issued, lastGet,
             rpc, attempt, resps, response, tokenReqs, forced, sleeps>>

cfgVars == <<page_size, max_page_size, remote>>

extVars == <<epc, endpoint_name, max_pages, page, all_data, extLog, fetchFailed>>

loadVars == <<db, tblUnique, db_columns, df, loads>>

resultVars == <<misa_results, tiktok_result, errors, data_quality,
                total_records, success>>

monitorVars == <<consecutive_failures, consecutive_no_data>>

orchVars == <<components, cycle_count, opc, idx, resultVars, monitorVars,
              hist, faults, runs>>

incVars == <<modified, lookback_hours, ipc, filtered_data>>

trVars == <<misa_batch_id, tiktok_batch_id, uuids, lastTransform, stamped>>

authVars == <<tiktok_access_token, tiktok_refresh_token, shop_cipher, lastAuth>>

vars == <<reqVars, cfgVars, extVars, loadVars, orchVars, incVars, trVars,
          authVars>>

\* what the specifications of the single layers leave alone
outsideReq == <<cfgVars, extVars, loadVars, orchVars, incVars, trVars,
                authVars>>

outsideExt == <<reqVars, cfgVars, loadVars, orchVars, incVars, trVars,
                authVars>>

outsideLoad == <<reqVars, cfgVars, extVars, orchVars, incVars, trVars,
                authVars>>

(***************************************************************************)
(* Token cache: MISACRMExtractor.get_access_token and helpers.             *)
(***************************************************************************)

\* what the account endpoint can answer to a token request; exp is the exp
\* claim of the minted token (0: the claim is absent or the token undecodable)
TokenAnswers ==
    [kind : {"ok"}, exp : 0..(MaxTime + misa_crm_token_refresh_buffer + 1)]
        \cup [kind : {"invalid", "http_error", "exception"}, exp : {0}]

\* _decode_token_expiry: the exp claim, or now + 1 hour when there is none
decode_token_expiry(exp, t) ==
    IF exp # 0 THEN exp ELSE t + DefaultLifetime

\* an expiry test that leaves the refresh buffer out
is_token_expired_no_buffer(tok, exp, t) ==
    IF tok = None \/ exp = None
    THEN TRUE
    ELSE t >= exp

\* _is_token_expired
is_token_expired(tok, exp, t) ==
    IF tok = None \/ exp = None
    THEN TRUE
    ELSE t + misa_crm_token_refresh_buffer >= exp

\* get_access_token(force_refresh) run against the cache (tok, exp) at time t,
\* the account endpoint answering ans if it is asked.  The result holds the
\* returned token, the cache afterwards and the number of requests sent.
get_access_token(force, tok, exp, t, n, ans) ==
    IF ~force /\ ~is_token_expired(tok, exp, t)
    THEN [ret |-> tok, tok |-> tok, exp |-> exp, requests |-> 0, issued |-> n]
    ELSE IF ans.kind = "ok"
         THEN [ret |-> n + 1, tok |-> n + 1,
               exp |-> decode_token_expiry(ans.exp, t),
               requests |-> 1, issued |-> n + 1]
         ELSE [ret |-> None, tok |-> tok, exp |-> exp,
               requests |-> 1, issued |-> n]

\* the answers the account endpoint can still give once n tokens are minted
TokenAnswersAt(n) ==
    IF n < MaxIssued THEN TokenAnswers
    ELSE {a \in TokenAnswers : a.kind # "ok"}

\* the record kept of one get_access_token call made on the cache (tok, exp)
GetRecord(force, tok, exp, ans, g) ==
    [called |-> TRUE, force |-> force, tokBefore |-> tok,
     expBefore |-> exp, at |-> now, answer |-> ans,
     requests |-> g.requests, ret |-> g.ret, tokAfter |-> g.tok,
     expAfter |-> g.exp]

NoGet ==
    [called |-> FALSE, force |-> FALSE, tokBefore |-> None, expBefore |-> None,
     at |-> 0, answer |-> [kind |-> "invalid", exp |-> 0],
     requests |-> 0, ret |-> None, tokAfter |-> None, expAfter |-> None]

ReqInit ==
    /\ access_token = None
    /\ token_expires_at = None
    /\ now = 0
    /\ issued = 0
    /\ lastGet = NoGet
    /\ rpc = "idle"
    /\ attempt = 0
    /\ resps = <<>>
    /\ response = "unset"
    /\ tokenReqs = 0
    /\ forced = 0
    /\ sleeps = <<>>

callVars == <<rpc, attempt, resps, response, tokenReqs, forced, sleeps>>

\* time passes
Tick ==
    /\ now < MaxTime
    /\ now' = now + 1
    /\ UNCHANGED <<access_token, token_expires_at, issued, lastGet, callVars>>

\* a caller (health_check, _get_headers) asks for the token
GetAccessToken ==
    /\ rpc = "idle"
    /\ \E force \in BOOLEAN, ans \in TokenAnswersAt(issued) :
         LET g == get_access_token(force, access_token, token_expires_at,
                                   now, issued, ans)
         IN  /\ access_token' = g.tok
             /\ token_expires_at' = g.exp
             /\ issued' = g.issued
             /\ lastGet' = GetRecord(force, access_token, token_expires_at,
                                     ans, g)
    /\ UNCHANGED <<now, callVars>>

(***************************************************************************)
(* MISACRMExtractor._make_request_with_retry: one action per iteration of   *)
(* the loop over range(api_retry_attempts).                                *)
(***************************************************************************)

\* what the API can answer to a page request: a status, or no answer at all
\* (connection error, timeout: requests.request raises)
PageAnswers == {"200", "401", "4xx", "5xx", "exc"}

\* extract_endpoint_data calls _make_request_with_retry
MakeRequest ==
    /\ rpc \in {"idle", "done"}
    /\ rpc' = "attempt"
    /\ attempt' = 0
    /\ resps' = <<>>
    /\ response' = "unset"
    /\ tokenReqs' = 0
    /\ forced' = 0
    /\ sleeps' = <<>>
    /\ UNCHANGED <<access_token, token_expires_at, now, issued, lastGet>>

\* a loop that gives up one iteration early
LastAttemptEarly(a) == ~(a < api_retry_attempts - 2)

\* is this the last iteration of the loop
LastAttempt(a) == ~(a < api_retry_attempts - 1)

\* the except branch: back off and go round again, or give up
OnException(a, cause) ==
    IF ~LastAttempt(a)
    THEN /\ sleeps' = Append(sleeps, <<cause, api_retry_delay * (a + 1)>>)
         /\ attempt' = a + 1
         /\ rpc' = "attempt"
         /\ response' = "unset"
    ELSE /\ sleeps' = sleeps
         /\ attempt' = a
         /\ rpc' = "done"
         /\ response' = "none"

\* the 401 branch, after the forced refresh
OnUnauthorized(a) ==
    IF ~LastAttempt(a)
    THEN /\ sleeps' = Append(sleeps, <<"401", api_retry_delay>>)
         /\ attempt' = a + 1
         /\ rpc' = "attempt"
         /\ response' = "unset"
    ELSE /\ sleeps' = sleeps
         /\ attempt' = a
         /\ rpc' = "done"
         /\ response' = "none"

\* any other status: logged, None returned at once
OnOtherStatus(a) ==
    /\ sleeps' = sleeps
    /\ attempt' = a
    /\ rpc' = "done"
    /\ response' = "none"

\* status 200: the response is returned
OnOk(a) ==
    /\ sleeps' = sleeps
    /\ attempt' = a
    /\ rpc' = "done"
    /\ response' = "ok"

\* one iteration: _get_headers, the request, the branch on its answer
Attempt ==
    /\ rpc = "attempt"
    /\ \E ans1 \in TokenAnswersAt(issued), r \in PageAnswers :
         LET g1 == get_access_token(FALSE, access_token, token_expires_at,
                                    now, issued, ans1)
         IN  IF g1.ret = None
             THEN \* _get_headers raises ValueError: no page request is sent
                  /\ access_token' = g1.tok
                  /\ token_expires_at' = g1.exp
                  /\ issued' = g1.issued
                  /\ lastGet' = GetRecord(FALSE, access_token,
                                          token_expires_at, ans1, g1)
                  /\ tokenReqs' = tokenReqs + g1.requests
                  /\ UNCHANGED <<resps, forced>>
                  /\ OnException(attempt, "token")
             ELSE IF r = "401"
             THEN \E ans2 \in TokenAnswersAt(g1.issued) :
                    LET g2 == get_access_token(TRUE, g1.tok, g1.exp, now,
                                               g1.issued, ans2)
                    IN  /\ access_token' = g2.tok
                        /\ token_expires_at' = g2.exp
                        /\ issued' = g2.issued
                        /\ lastGet' = GetRecord(TRUE, g1.tok, g1.exp, ans2, g2)
                        /\ tokenReqs' = tokenReqs + g1.requests + g2.requests
                        /\ forced' = forced + 1
                        /\ resps' = Append(resps, r)
                        /\ OnUnauthorized(attempt)
             ELSE /\ access_token' = g1.tok
                  /\ token_expires_at' = g1.exp
                  /\ issued' = g1.issued
                  /\ lastGet' = GetRecord(FALSE, access_token,
                                          token_expires_at, ans1, g1)
                  /\ tokenReqs' = tokenReqs + g1.requests
                  /\ forced' = forced
                  /\ resps' = Append(resps, r)
                  /\ IF r = "200" THEN OnOk(attempt)
                     ELSE IF r = "exc" THEN OnException(attempt, "exc")
                     ELSE OnOtherStatus(attempt)
    /\ UNCHANGED now

(***************************************************************************)
(* MISACRMExtractor.extract_endpoint_data and                              *)
(* extract_all_data_from_endpoint: one action per iteration of the page    *)
(* loop.  The outcome of _make_request_with_retry is an input here: a      *)
(* Response, or None once the retry loop above has given up.               *)
(***************************************************************************)

MisaEndpoints == {"sale_orders", "customers", "contacts", "stocks", "products"}

\* the TikTok Shop orders: the sixth source and staging table
TikTokTable == "tiktok_orders"

StagingTables == MisaEndpoints \cup {TikTokTable}

Min(a, b) == IF a < b THEN a ELSE b

\* the sequence lo, lo+1, ..., hi
Range(lo, hi) == [i \in 1..(IF hi >= lo THEN hi - lo + 1 ELSE 0) |-> lo + i - 1]

\* the records the API returns for page p with pageSize s of a collection of
\* n records; a request without page parameters returns the collection
RemotePage(n, p, s) ==
    IF p = None THEN Range(1, n)
    ELSE Range(p * s + 1, Min((p + 1) * s, n))

\* request_params of extract_endpoint_data: <<page, pageSize>>
request_params(e, p, size) ==
    IF e = "stocks" THEN <<None, None>>
    ELSE <<p, Min(size, max_page_size)>>

\* the limit test at the head of the loop: "if max_pages and page >= max_pages"
LimitReached(mp, p) == mp # None /\ mp # 0 /\ p >= mp

\* the last-page test: "len(batch_data) < settings.misa_crm_page_size"
IsLastPage(batch) == Len(batch) < page_size

\* the loop stops exploring here when the code would go on for ever
MaxFetch == (IF MaxRemote > MaxPagesArg THEN MaxRemote ELSE MaxPagesArg) + 2

ExtIdle ==
    /\ epc = "idle"
    /\ endpoint_name = "customers"
    /\ max_pages = None
    /\ page = 0
    /\ all_data = <<>>
    /\ extLog = <<>>
    /\ fetchFailed = FALSE

\* extract_all_data_from_endpoint(e, max_pages=mp) is entered
StartExtractAll(e, mp) ==
    /\ epc' = "loop"
    /\ endpoint_name' = e
    /\ max_pages' = mp
    /\ page' = 0
    /\ all_data' = <<>>
    /\ extLog' = <<>>
    /\ fetchFailed' = FALSE

\* one iteration of "while True".  answer is what the request layer hands to
\* extract_endpoint_data: "ok" (a 200 with a JSON body holding the page),
\* "nodata" (a JSON body without data), "none" (None after the retries) or
\* "garbled" (a 200 whose body is no JSON: response.json() raises).
PageLoopStep(answer) ==
    /\ epc = "loop"
    /\ UNCHANGED <<endpoint_name, max_pages>>
    /\ IF LimitReached(max_pages, page)
       THEN /\ epc' = "done"
            /\ UNCHANGED <<page, all_data, extLog, fetchFailed>>
       ELSE LET rp == request_params(endpoint_name, page, page_size)
                batch == IF answer = "ok"
                         THEN RemotePage(remote[endpoint_name], rp[1], rp[2])
                         ELSE <<>>
                req == <<"fetch", rp[1], rp[2], page, batch>>
            IN  IF answer = "garbled"
                THEN /\ epc' = "raised"
                     /\ extLog' = Append(extLog, req)
                     /\ UNCHANGED <<page, all_data, fetchFailed>>
                ELSE IF batch = <<>>
                THEN \* "not result or 'data' not in result or not result['data']"
                     /\ epc' = "done"
                     /\ extLog' = Append(extLog, req)
                     /\ fetchFailed' = (fetchFailed \/ answer = "none")
                     /\ UNCHANGED <<page, all_data>>
                ELSE IF IsLastPage(batch)
                THEN /\ epc' = "done"
                     /\ all_data' = all_data \o batch
                     /\ extLog' = Append(extLog, req)
                     /\ UNCHANGED <<page, fetchFailed>>
                ELSE /\ epc' = "loop"
                     /\ all_data' = all_data \o batch
                     /\ page' = page + 1
                     /\ extLog' = Append(Append(extLog, req), <<"sleep">>)
                     /\ UNCHANGED fetchFailed

PageAnswerKinds == {"ok", "nodata", "none", "garbled"}

\* the settings and the remote side as the request-layer specification has them
CfgFixed ==
    /\ page_size = 1
    /\ max_page_size = 1
    /\ remote = [e \in StagingTables |-> 0]

(***************************************************************************)
(* The staging database and the loaders: MISACRMLoader                     *)
(* .load_dataframe_to_staging / _load_with_pyodbc, DatabaseManager         *)
(* .insert_dataframe behind TikTokShopOrderLoader.load_orders, and the     *)
(* backfill's upsert_misa_data / _build_merge_statement.  A row is a       *)
(* record with the key columns k1 (id, order_id, stock_code), k2 (item_id) *)
(* and a payload column v; None is SQL NULL.                               *)
(***************************************************************************)

\* the columns of a transformed DataFrame
DfColumns == {"k1", "k2", "v"}

\* the primary_keys arguments of process_batch; the key a unique constraint
\* on the TikTok table would have
primary_keys(t) ==
    IF t \in {"sale_orders", TikTokTable} THEN <<"k1", "k2">> ELSE <<"k1">>

SeqToSet(q) == {q[i] : i \in DOMAIN q}

KeyOf(r, pks) == [i \in DOMAIN pks |-> r[pks[i]]]

\* a unique index rejects a row whose key is already in the table (a unique
\* index of SQL Server treats NULLs as equal)
Collides(tbl, r, pks) == \E i \in DOMAIN tbl : KeyOf(tbl[i], pks) = KeyOf(r, pks)

\* the row the statement inserts: the matching columns, NULL for the rest
Project(r, cols) == [c \in DfColumns |-> IF c \in cols THEN r[c] ELSE None]

\* INSERT the rows one by one inside the open transaction, up to the first
\* constraint violation
RECURSIVE InsertRows(_, _, _, _)
InsertRows(tbl, rows, pks, uniq) ==
    IF rows = <<>> THEN [ok |-> TRUE, tbl |-> tbl]
    ELSE IF uniq /\ Collides(tbl, Head(rows), pks)
         THEN [ok |-> FALSE, tbl |-> tbl]
         ELSE InsertRows(Append(tbl, Head(rows)), Tail(rows), pks, uniq)

\* df.to_sql(if_exists='append', method='multi'): one transaction; it raises
\* when the connection fails, when the DataFrame has a column the table lacks
\* or when a row violates a constraint, and then nothing is inserted
to_sql(tbl, rows, pks, uniq, cols, connOk) ==
    LET r == InsertRows(tbl, rows, pks, uniq)
    IN  IF connOk /\ DfColumns \subseteq cols /\ r.ok
        THEN r
        ELSE [ok |-> FALSE, tbl |-> tbl]

\* the "batch_size = 1000" of _load_with_pyodbc
batch_size == 1000

\* the executemany / commit loop of _load_with_pyodbc over the batches that
\* start at row i + 1: a failed batch is not committed, the earlier ones are
RECURSIVE PyodbcBatches(_, _, _, _, _)
PyodbcBatches(tbl, rows, i, pks, uniq) ==
    IF i >= Len(rows) THEN [ok |-> TRUE, tbl |-> tbl]
    ELSE LET batch == SubSeq(rows, i + 1, Min(i + batch_size, Len(rows)))
             r == InsertRows(tbl, batch, pks, uniq)
         IN  IF r.ok THEN PyodbcBatches(r.tbl, rows, i + batch_size, pks, uniq)
             ELSE [ok |-> FALSE, tbl |-> tbl]

load_with_pyodbc(tbl, rows, pks, uniq, cols, connOk) ==
    LET matching_columns == cols \cap DfColumns
        projected == [i \in DOMAIN rows |-> Project(rows[i], matching_columns)]
    IN  IF ~connOk \/ matching_columns = {}
        THEN [ok |-> FALSE, tbl |-> tbl]
        ELSE PyodbcBatches(tbl, projected, 0, pks, uniq)

\* MISACRMLoader.load_dataframe_to_staging(df, endpoint)
load_dataframe_to_staging(tbl, rows, pks, uniq, cols, engineOk, connOk) ==
    IF rows = <<>> THEN [ok |-> TRUE, tbl |-> tbl]
    ELSE LET first == to_sql(tbl, rows, pks, uniq, cols, engineOk)
         IN  IF first.ok THEN first
             ELSE load_with_pyodbc(tbl, rows, pks, uniq, cols, connOk)

\* DatabaseManager.insert_dataframe: to_sql, False on any exception
insert_dataframe(tbl, rows, pks, uniq, cols, engineOk) ==
    to_sql(tbl, rows, pks, uniq, cols, engineOk)

\* TikTokShopOrderLoader._validate_dataframe: no null order_id
validate_dataframe(rows) == \A i \in DOMAIN rows : rows[i].k1 # None

\* TikTokShopOrderTransformer.validate_dataframe: False for an empty frame
\* (the required columns order_id and etl_batch_id are always there); the
\* number of null order_ids is counted and logged as a warning, no more
transformer_validate_dataframe(rows) ==
    LET null_order_ids == Cardinality({i \in DOMAIN rows : rows[i].k1 = None})
    IN  IF rows = <<>> THEN FALSE
        ELSE IF null_order_ids > 0 THEN TRUE
        ELSE TRUE

\* the value "astype(str)" of _prepare_dataframe_for_load gives a null: the
\* string 'None'
StrNone == None - 1

\* TikTokShopOrderLoader._prepare_dataframe_for_load: order_id and item_id
\* become strings
prepare_dataframe_for_load(rows) ==
    [i \in DOMAIN rows |->
        [rows[i] EXCEPT !.k2 = IF @ = None THEN StrNone ELSE @]]

\* TikTokShopOrderLoader.load_incremental_orders -> load_orders(append)
load_orders(tbl, rows, pks, uniq, cols, engineOk) ==
    IF rows = <<>> THEN [ok |-> TRUE, tbl |-> tbl]
    ELSE IF ~validate_dataframe(rows) THEN [ok |-> FALSE, tbl |-> tbl]
    ELSE insert_dataframe(tbl, prepare_dataframe_for_load(rows), pks, uniq,
                          cols, engineOk)

\* _build_merge_statement: the ON clause compares the primary keys that are
\* among the matched columns ("1=0" when none is); the UPDATE sets the rest
on_conditions(cols, pks) == {c \in SeqToSet(pks) : c \in cols}

update_columns(cols, pks) == cols \ SeqToSet(pks)

\* the "?" markers of the statement: one per column, in the USING clause
parameter_markers(cols) == Cardinality(cols)

\* cursor.execute(merge_sql, values + values)
parameters_supplied(cols) == Cardinality(cols) + Cardinality(cols)

\* "target.pk = source.pk": not true when either side is NULL
SqlEquals(a, b) == a # None /\ b # None /\ a = b

Matched(t, s, on) == on # {} /\ \A c \in on : SqlEquals(t[c], s[c])

\* one iteration of "for _, row in df.iterrows()": cursor.execute raises when
\* the parameters do not fit the markers, when the UPDATE has nothing to set
\* or when the INSERT violates a constraint, and "except: continue" goes on
\* to the next row
MergeRow(tbl, s, cols, pks, uniq) ==
    LET src == Project(s, cols)
        hit == {i \in DOMAIN tbl : Matched(tbl[i], src, on_conditions(cols, pks))}
    IN  IF parameter_markers(cols) # parameters_supplied(cols) THEN tbl
        ELSE IF update_columns(cols, pks) = {} THEN tbl
        ELSE IF hit # {}
        THEN [i \in DOMAIN tbl |->
                 IF i \in hit
                 THEN [c \in DfColumns |->
                          IF c \in update_columns(cols, pks) THEN src[c]
                          ELSE tbl[i][c]]
                 ELSE tbl[i]]
        ELSE IF uniq /\ Collides(tbl, src, pks) THEN tbl
        ELSE Append(tbl, src)

RECURSIVE MergeRows(_, _, _, _, _)
MergeRows(tbl, rows, cols, pks, uniq) ==
    IF rows = <<>> THEN tbl
    ELSE MergeRows(MergeRow(tbl, Head(rows), cols, pks, uniq), Tail(rows),
                   cols, pks, uniq)

\* HistoricalBackfillManager.upsert_misa_data(df, table_name, primary_keys)
upsert_misa_data(tbl, rows, pks, uniq, cols, connOk) ==
    IF ~connOk \/ cols \cap DfColumns = {}
    THEN [ok |-> FALSE, tbl |-> tbl]
    ELSE [ok |-> TRUE, tbl |-> MergeRows(tbl, rows, cols \cap DfColumns, pks, uniq)]

\* process_batch: "if success: batch_results['records_processed'] += len(df)"
records_processed(upserted, rows) == IF upserted THEN Len(rows) ELSE 0

\* a row of a DataFrame or of a staging table
Row(a, b, c) == [k1 |-> a, k2 |-> b, v |-> c]

(***************************************************************************)
(* ProductionETLOrchestrator.run_production_cycle with the transformers    *)
(* and ProductionETLMonitor.record_cycle_metrics.  The six components are  *)
(* constructed in a fixed order, so "components" counts how many are set:  *)
(* misa_extractor, misa_transformer, misa_loader, tiktok_extractor,        *)
(* tiktok_transformer, tiktok_loader.                                      *)
(***************************************************************************)

\* ProductionConfig.MISA_MAX_PAGES_PER_CYCLE
MISA_MAX_PAGES_PER_CYCLE == 2

\* the endpoints list in another order than that of the priorities
endpoints_unsorted ==
    <<"customers", "sale_orders", "contacts", "stocks", "products">>

\* the endpoints list of _process_misa_crm_endpoints, sorted by priority
endpoints == <<"sale_orders", "customers", "contacts", "stocks", "products">>

AllComponents == 6

\* record i of the remote sale orders (and TikTok orders) carries i - 1 child
\* items, so that childless orders and orders with several items both occur
Children(i) == i - 1

\* a flattening that has no row for an order without items
FlatRowsDropChildless(i) ==
    IF Children(i) = 0 THEN <<>>
    ELSE [j \in 1..Children(i) |-> Row(i, j, 1)]

\* the body of the loop over the orders: one row for each child item
\* ("if product_mappings:" / "if not line_items:"), else one row whose item
\* fields are None
FlatRows(i) ==
    IF Children(i) = 0 THEN <<Row(i, None, 1)>>
    ELSE [j \in 1..Children(i) |-> Row(i, j, 1)]

RECURSIVE Flatten(_)
\* the loop over the orders of transform_sale_orders_flattened and of
\* transform_orders_to_dataframe
Flatten(raw) ==
    IF raw = <<>> THEN <<>>
    ELSE FlatRows(Head(raw)) \o Flatten(Tail(raw))

\* MISACRMTransformer.transform_sale_orders_flattened on well-formed orders
\* (it has no handler: a malformed order makes it raise)
transform_sale_orders_flattened(sale_orders_data) == Flatten(sale_orders_data)

\* TikTokShopOrderTransformer.transform_orders_to_dataframe: the whole body
\* sits in a try whose handler returns an empty DataFrame
transform_orders_to_dataframe(orders, wellFormed) ==
    IF wellFormed THEN Flatten(orders) ELSE <<>>

\* transform_customers, _contacts, _stocks, _products: one row per record
transform_flat(raw) == [k \in DOMAIN raw |-> Row(raw[k], None, 1)]

\* the transform step of _process_misa_crm_endpoints
transform_endpoint(e, raw) ==
    IF e = "sale_orders" THEN transform_sale_orders_flattened(raw)
    ELSE transform_flat(raw)

\* the two transformer objects
Transformers == {"misa", "tiktok"}

NoTransform ==
    [called |-> FALSE, transformer |-> "misa", endpoint |-> "customers",
     input |-> <<>>, wellFormed |-> TRUE, raised |-> FALSE, rows |-> <<>>,
     batch_id |-> None, supplied |-> FALSE, cycle |-> 0]

\* no transformer is constructed and no transform was called
TrIdle ==
    /\ misa_batch_id = None
    /\ tiktok_batch_id = None
    /\ uuids = 0
    /\ lastTransform = NoTransform
    /\ stamped = [t \in Transformers |-> <<>>]

LastTwo(seq) == IF Len(seq) > 2 THEN Tail(seq) ELSE seq

\* a transform call returns (or raises): _add_etl_metadata has written
\* self.batch_id into the etl_batch_id column of every row of the result
LogTransform(tr, e, raw, wellFormed, raised, rows, bid, supplied) ==
    /\ lastTransform' =
         [called |-> TRUE, transformer |-> tr, endpoint |-> e, input |-> raw,
          wellFormed |-> wellFormed, raised |-> raised, rows |-> rows,
          batch_id |-> bid, supplied |-> supplied, cycle |-> cycle_count]
    /\ stamped' =
         IF rows = <<>> \/ supplied THEN stamped
         ELSE [stamped EXCEPT ![tr] = LastTwo(Append(@, bid))]

\* an entry of misa_results / tiktok_results; None where the dict has no such key
Result(status, records, extracted, transformed) ==
    [status |-> status, records |-> records,
     extracted |-> extracted, transformed |-> transformed]

NoResult == Result("absent", 0, None, None)

ErrorResult == Result("error", 0, None, None)

\* raised: the stage that raised; fetch_failed: a page request failed;
\* validated: "none" | "passed" | "failed", the validation of the transformed
\* rows; written: the rows the load added to the table
NoHist == [raised |-> "none", fetch_failed |-> FALSE, validated |-> "none",
           written |-> 0]

\* the fresh cycle_results of run_production_cycle (but for 'errors')
FreshResults ==
    /\ misa_results' = [e \in MisaEndpoints |-> NoResult]
    /\ tiktok_result' = NoResult
    /\ data_quality' = "unset"
    /\ total_records' = 0
    /\ success' = FALSE
    /\ hist' = [e \in StagingTables |-> NoHist]

OrchIdle ==
    /\ components = 0
    /\ cycle_count = 0
    /\ opc = "idle"
    /\ idx = 1
    /\ misa_results = [e \in MisaEndpoints |-> NoResult]
    /\ tiktok_result = NoResult
    /\ errors = {}
    /\ data_quality = "unset"
    /\ total_records = 0
    /\ success = FALSE
    /\ consecutive_failures = 0
    /\ consecutive_no_data = 0
    /\ hist = [e \in StagingTables |-> NoHist]
    /\ faults = 0
    /\ runs = <<>>

\* the environment may fail while it has failures left to spend
MayFail == faults < MaxFaults

Cost(failed) == IF failed THEN 1 ELSE 0

\* an initialization whose failure is recorded but does not end the cycle
ComponentsInitializedContinues(built) ==
    /\ errors' = IF built < AllComponents
                 THEN {"Component initialization failed"} ELSE {}
    /\ opc' = "misa"

\* "if not self.initialize_components():" the error is appended and the
\* cycle returns through _finalize_cycle_results; else phase 1 begins
ComponentsInitialized(built) ==
    IF built < AllComponents
    THEN /\ errors' = {"Component initialization failed"}
         /\ opc' = "finalize"
    ELSE /\ errors' = {}
         /\ opc' = "misa"

\* run_production_cycle up to the start of phase 1: count the cycle, build
\* the fresh results, initialize the components when there is no extractor
\* (built constructors succeed, the first that raises ends initialization)
RunProductionCycle ==
    /\ opc \in {"idle", "returned"}
    /\ cycle_count < MaxCycles
    /\ cycle_count' = cycle_count + 1
    /\ FreshResults
    /\ idx' = 1
    /\ IF components = 0
       THEN \E built \in 0..AllComponents :
              /\ built < AllComponents => MayFail
              /\ components' = built
              /\ misa_batch_id' = IF built >= 2 THEN None ELSE misa_batch_id
              /\ tiktok_batch_id' = IF built >= 5 THEN uuids + 1
                                    ELSE tiktok_batch_id
              /\ uuids' = IF built >= 5 THEN uuids + 1 ELSE uuids
              /\ faults' = faults + Cost(built < AllComponents)
              /\ ComponentsInitialized(built)
       ELSE /\ errors' = {}
            /\ opc' = "misa"
            /\ UNCHANGED <<components, faults, misa_batch_id, tiktok_batch_id,
                           uuids>>
    /\ UNCHANGED <<lastTransform, stamped>>
    /\ UNCHANGED <<monitorVars, runs, reqVars, cfgVars, extVars, loadVars, incVars,
                   authVars>>

\* the loop of _process_misa_crm_endpoints moves on to the next endpoint, or
\* phase 1 ends
NextEndpoint ==
    /\ idx' = idx + 1
    /\ opc' = IF idx = Len(endpoints) THEN "tiktok" ELSE "misa"

\* the handler taken if the endpoint loop had no try of its own: the
\* exception ends phase 1 in the handler of run_production_cycle
EndpointRaisedAborts(e, stage) ==
    /\ hist' = [hist EXCEPT ![e] = [NoHist EXCEPT !.raised = stage,
                                                  !.fetch_failed = fetchFailed]]
    /\ errors' = errors \cup {"Cycle exception"}
    /\ opc' = "finalize"
    /\ UNCHANGED <<misa_results, idx, db>>

\* "except Exception" of the endpoint loop: status 'error', records 0, and
\* on to the next endpoint
EndpointRaised(e, stage) ==
    /\ misa_results' = [misa_results EXCEPT ![e] = ErrorResult]
    /\ hist' = [hist EXCEPT ![e] = [NoHist EXCEPT !.raised = stage,
                                                  !.fetch_failed = fetchFailed]]
    /\ NextEndpoint
    /\ UNCHANGED <<errors, db>>

\* the endpoint's entry is written without an exception; no validation of
\* the transformed rows is called between the transform and the load
EndpointDone(e, result, tbl) ==
    /\ misa_results' = [misa_results EXCEPT ![e] = result]
    /\ hist' = [hist EXCEPT ![e] = [NoHist EXCEPT !.fetch_failed = fetchFailed,
                                                  !.written = Len(tbl) - Len(db[e])]]
    /\ db' = [db EXCEPT ![e] = tbl]
    /\ NextEndpoint
    /\ UNCHANGED errors

\* the extraction of the current endpoint begins
MisaExtractStart ==
    /\ opc = "misa" /\ epc = "idle"
    /\ StartExtractAll(endpoints[idx], MISA_MAX_PAGES_PER_CYCLE)
    /\ UNCHANGED <<reqVars, cfgVars, incVars, authVars, trVars, loadVars, orchVars>>

\* one iteration of the page loop inside the cycle
MisaFetchPage ==
    /\ opc = "misa" /\ epc = "loop"
    /\ \E answer \in PageAnswerKinds :
         LET failed == answer # "ok" /\ ~LimitReached(max_pages, page)
         IN  /\ answer # "ok" => (MayFail /\ ~LimitReached(max_pages, page))
             /\ PageLoopStep(answer)
             /\ faults' = faults + Cost(failed)
    /\ UNCHANGED <<reqVars, cfgVars, incVars, authVars, trVars, loadVars, components, cycle_count, opc,
                   idx, resultVars, monitorVars, hist, runs>>

\* the rest of the loop body once the extraction has returned or raised:
\* the no_data test, the transform, the load and the endpoint's entry
MisaFinishEndpoint ==
    /\ opc = "misa" /\ epc \in {"done", "raised"}
    /\ LET e == endpoints[idx]
           rows == transform_endpoint(e, all_data)
           Transformed ==
               LogTransform("misa", e, all_data, TRUE, FALSE, rows,
                            misa_batch_id, FALSE)
       IN  IF epc = "raised"
           THEN EndpointRaised(e, "extract") /\ UNCHANGED <<faults, lastTransform, stamped>>
           ELSE IF all_data = <<>>
           THEN /\ EndpointDone(e, Result("no_data", 0, 0, 0), db[e])
                /\ UNCHANGED <<faults, lastTransform, stamped>>
           ELSE IF components < 2
           THEN EndpointRaised(e, "transform") /\ UNCHANGED <<faults, lastTransform, stamped>>
           ELSE \/ /\ MayFail
                   /\ EndpointRaised(e, "transform")
                   /\ LogTransform("misa", e, all_data, FALSE, TRUE, <<>>,
                                   misa_batch_id, FALSE)
                   /\ faults' = faults + 1
                \/ /\ components < 3
                   /\ EndpointRaised(e, "load")
                   /\ Transformed
                   /\ UNCHANGED faults
                \/ /\ components >= 3
                   /\ Transformed
                   /\ \E engineOk \in BOOLEAN, connOk \in BOOLEAN :
                        LET r == load_dataframe_to_staging(
                                     db[e], rows, primary_keys(e), tblUnique,
                                     db_columns, engineOk, connOk)
                        IN  /\ faults + Cost(~engineOk) + Cost(~connOk) <= MaxFaults
                            /\ ~connOk => ~to_sql(db[e], rows, primary_keys(e),
                                                  tblUnique, db_columns, engineOk).ok
                            /\ faults' = faults + Cost(~engineOk) + Cost(~connOk)
                            /\ EndpointDone(e,
                                   IF r.ok
                                   THEN Result("success", Len(rows), Len(all_data), Len(rows))
                                   ELSE Result("duplicate_skipped", 0, Len(all_data), Len(rows)),
                                   r.tbl)
    /\ epc' = "idle"
    /\ UNCHANGED <<endpoint_name, max_pages, page, all_data, extLog, fetchFailed>>
    /\ UNCHANGED <<reqVars, cfgVars, incVars, authVars, tblUnique, db_columns, df, loads>>
    /\ UNCHANGED <<misa_batch_id, tiktok_batch_id, uuids>>
    /\ UNCHANGED <<components, cycle_count, tiktok_result, data_quality,
                   total_records, success, monitorVars, runs>>

\* _process_tiktok_shop_data.  extract_recent_orders swallows API failures
\* and returns [], transform_orders_to_dataframe swallows its exceptions and
\* returns an empty DataFrame, a missing component raises AttributeError into
\* the handler of the phase
ProcessTikTokShopData ==
    /\ opc = "tiktok"
    /\ \E apiOk \in BOOLEAN, transformOk \in BOOLEAN, engineOk \in BOOLEAN :
         LET raw_orders == IF apiOk THEN Range(1, remote[TikTokTable]) ELSE <<>>
             transformed_df == transform_orders_to_dataframe(raw_orders, transformOk)
             r == load_orders(db[TikTokTable], transformed_df,
                              primary_keys(TikTokTable), tblUnique, db_columns,
                              engineOk)
             loading == components = AllComponents /\ raw_orders # <<>>
         IN  /\ ~apiOk => (components >= 4 /\ remote[TikTokTable] > 0)
             /\ ~transformOk => loading
             /\ ~engineOk => (loading /\ transformOk)
             /\ faults + Cost(~apiOk) + Cost(~transformOk) + Cost(~engineOk)
                    <= MaxFaults
             /\ faults' = faults + Cost(~apiOk) + Cost(~transformOk)
                              + Cost(~engineOk)
             /\ IF components < 4 THEN
                    tiktok_result' = ErrorResult /\ UNCHANGED <<db, hist>>
                ELSE IF raw_orders = <<>> THEN
                    /\ tiktok_result' = Result("no_data", 0, 0, 0)
                    /\ UNCHANGED <<db, hist>>
                ELSE IF components < AllComponents THEN
                    tiktok_result' = ErrorResult /\ UNCHANGED <<db, hist>>
                ELSE /\ db' = [db EXCEPT ![TikTokTable] = r.tbl]
                     /\ hist' = [hist EXCEPT ![TikTokTable] =
                            [NoHist EXCEPT
                               !.validated =
                                   IF transformed_df = <<>> THEN "none"
                                   ELSE IF validate_dataframe(transformed_df)
                                   THEN "passed" ELSE "failed",
                               !.written = Len(r.tbl) - Len(db[TikTokTable])]]
                     /\ tiktok_result' =
                          IF r.ok
                          THEN Result("success", Len(transformed_df),
                                      Len(raw_orders), Len(transformed_df))
                          ELSE Result("load_failed", 0, Len(raw_orders),
                                      Len(transformed_df))
             /\ IF components >= 5 /\ raw_orders # <<>>
                THEN LogTransform("tiktok", TikTokTable, raw_orders, transformOk,
                                  FALSE, transformed_df, tiktok_batch_id, FALSE)
                ELSE UNCHANGED <<lastTransform, stamped>>
    /\ opc' = "quality"
    /\ UNCHANGED <<misa_batch_id, tiktok_batch_id, uuids>>
    /\ UNCHANGED <<reqVars, cfgVars, incVars, authVars, extVars, tblUnique, db_columns, df, loads>>
    /\ UNCHANGED <<components, cycle_count, idx, misa_results, errors,
                   data_quality, total_records, success, monitorVars, runs>>

\* "tables_with_data >= 5" of _verify_data_quality
QualityThreshold == 5

\* a total that leaves the TikTok orders out
calculate_total_records_misa_only(mr, tr) ==
    mr[endpoints[1]].records + mr[endpoints[2]].records
        + mr[endpoints[3]].records + mr[endpoints[4]].records
        + mr[endpoints[5]].records

\* _calculate_total_records
calculate_total_records(mr, tr) ==
    mr[endpoints[1]].records + mr[endpoints[2]].records
        + mr[endpoints[3]].records + mr[endpoints[4]].records
        + mr[endpoints[5]].records + tr.records

\* a success test that leaves the data-quality check out
determine_cycle_success_no_quality(errs, passed, mr, tr) ==
    IF errs # {} THEN FALSE
    ELSE \/ \E e \in MisaEndpoints : mr[e].status = "success"
         \/ tr.status = "success"

\* _determine_cycle_success
determine_cycle_success(errs, passed, mr, tr) ==
    IF errs # {} THEN FALSE
    ELSE IF ~passed THEN FALSE
    ELSE \/ \E e \in MisaEndpoints : mr[e].status = "success"
         \/ tr.status = "success"

\* phase 3 and the totals: _verify_data_quality counts the rows of the six
\* staging tables (any exception gives quality_check_passed False), then
\* total_records and success are computed
VerifyDataQuality ==
    /\ opc = "quality"
    /\ \E connOk \in BOOLEAN :
         LET tables_with_data ==
                 Cardinality({t \in StagingTables : db[t] # <<>>})
             passed == connOk /\ tables_with_data >= QualityThreshold
         IN  /\ ~connOk => MayFail
             /\ faults' = faults + Cost(~connOk)
             /\ data_quality' = [quality_check_passed |-> passed,
                                 tables_with_data |->
                                     IF connOk THEN tables_with_data ELSE None]
             /\ success' = determine_cycle_success(errors, passed,
                                                   misa_results, tiktok_result)
    /\ total_records' = calculate_total_records(misa_results, tiktok_result)
    /\ opc' = "finalize"
    /\ UNCHANGED <<reqVars, cfgVars, incVars, authVars, trVars, extVars, loadVars>>
    /\ UNCHANGED <<components, cycle_count, idx, misa_results, tiktok_result,
                   errors, monitorVars, hist, runs>>

\* a monitor that never resets its failure counter
record_cycle_metrics_no_reset(overall_success, records) ==
    /\ consecutive_failures' =
           IF overall_success THEN consecutive_failures
           ELSE consecutive_failures + 1
    /\ consecutive_no_data' =
           IF ~overall_success THEN consecutive_no_data
           ELSE IF records > 0 THEN 0 ELSE consecutive_no_data + 1

\* ProductionETLMonitor.record_cycle_metrics: "Update consecutive counters"
record_cycle_metrics(overall_success, records) ==
    IF overall_success
    THEN /\ consecutive_failures' = 0
         /\ consecutive_no_data' =
                IF records > 0 THEN 0 ELSE consecutive_no_data + 1
    ELSE /\ consecutive_failures' = consecutive_failures + 1
         /\ UNCHANGED consecutive_no_data

\* the record kept of a cycle handed to the monitor
RunRecord(overall_success, records) ==
    [db |-> db, faults |-> faults, misa_crm |-> misa_results,
     tiktok_shop |-> tiktok_result, total_records |-> records,
     success |-> overall_success]

\* _finalize_cycle_results with monitor.record_cycle_metrics, and the return
\* of run_production_cycle
FinalizeCycleResults ==
    /\ opc = "finalize"
    /\ record_cycle_metrics(success, total_records)
    /\ runs' = Append(runs, RunRecord(success, total_records))
    /\ opc' = "returned"
    /\ UNCHANGED <<reqVars, cfgVars, incVars, authVars, trVars, extVars, loadVars>>
    /\ UNCHANGED <<components, cycle_count, idx, resultVars, hist, faults>>

(***************************************************************************)
(* MISACRMExtractor.extract_incremental_data: the bulk extraction with a   *)
(* page limit, then the filter on modified_date.  A modified_date is       *)
(* missing (absent or empty), garbage (datetime.fromisoformat raises),     *)
(* naive (parsed, no UTC offset) or aware (parsed, with a "Z" or an offset *)
(* suffix); t is its time in hours.                                        *)
(***************************************************************************)

\* "max_pages=10" of extract_incremental_data
IncrementalMaxPages == 10

Stamp(kind, t) == [kind |-> kind, t |-> t]

Stamps ==
    {Stamp("missing", 0), Stamp("garbage", 0)}
        \cup {Stamp(k, 0 - a) : k \in {"naive", "aware"}, a \in 0..MaxAge}

\* datetime.now() - timedelta(hours=lookback_hours): a naive datetime
cutoff_time(t, hours) == t - hours

\* the body of "for record in all_data": is the record appended?  Comparing
\* an aware datetime with the naive cutoff raises TypeError, and the bare
\* except appends the record like one whose date did not parse
Appended(stamp, cutoff) ==
    IF stamp.kind = "missing" THEN TRUE
    ELSE IF stamp.kind = "garbage" THEN TRUE
    ELSE IF stamp.kind = "aware" THEN TRUE
    ELSE stamp.t >= cutoff

IncIdle ==
    /\ modified = <<>>
    /\ lookback_hours = 1
    /\ ipc = "idle"
    /\ filtered_data = <<>>

\* extract_incremental_data(e, lookback_hours) is called
IncStart ==
    /\ ipc \in {"idle", "done", "raised"}
    /\ \E e \in MisaEndpoints : StartExtractAll(e, IncrementalMaxPages)
    /\ ipc' = "extract"
    /\ filtered_data' = <<>>
    /\ UNCHANGED <<modified, lookback_hours>>
    /\ UNCHANGED <<reqVars, cfgVars, loadVars, orchVars, trVars, authVars>>

\* an iteration of the page loop of the bulk extraction
IncFetchPage ==
    /\ ipc = "extract" /\ epc = "loop"
    /\ \E answer \in PageAnswerKinds : PageLoopStep(answer)
    /\ UNCHANGED incVars
    /\ UNCHANGED <<reqVars, cfgVars, loadVars, orchVars, trVars, authVars>>

\* the bulk extraction has returned (or raised): "if not all_data: return []"
\* and the filter loop
IncFilter ==
    /\ ipc = "extract" /\ epc \in {"done", "raised"}
    /\ IF epc = "raised"
       THEN ipc' = "raised" /\ UNCHANGED filtered_data
       ELSE /\ ipc' = "done"
            /\ filtered_data' =
                 SelectSeq(all_data,
                           LAMBDA rec : Appended(modified[rec],
                                                 cutoff_time(now, lookback_hours)))
    /\ UNCHANGED <<modified, lookback_hours>>
    /\ UNCHANGED <<reqVars, cfgVars, extVars, loadVars, orchVars, trVars, authVars>>

(***************************************************************************)
(* TikTokAuthenticator (utils/auth.py) and the connectivity probe of the   *)
(* TikTokShopOrderExtractor.  The credential is the record of the three    *)
(* fields access_token, refresh_token and shop_cipher; a call that talks   *)
(* to the API has one outcome for each answer the API can give, so the     *)
(* calls built from others are sets of outcomes.                           *)
(***************************************************************************)

Credential(a, r, c) == [access_token |-> a, refresh_token |-> r, shop_cipher |-> c]

\* the authenticator as its constructor leaves it, with the settings' values
ConfiguredCredentials == {Credential(0, 0, c) : c \in 0..MaxCiphers}

\* what the token refresh endpoint can answer: 200 with code 0 and both
\* tokens, 200 with code 0 and a data object that lacks refresh_token, 200
\* with code 0 and no usable data object, 200 with an error code, another
\* HTTP status, or no answer (requests.post or response.json() raises)
RefreshAnswers ==
    [kind : {"ok", "no_refresh_token"},
     access_token : 1..MaxAuthTokens, refresh_token : 1..MaxAuthTokens]
        \cup [kind : {"no_data", "api_error", "http_error", "exception"},
              access_token : {0}, refresh_token : {0}]

\* refresh_access_token: the two assignments run one after the other inside
\* the try; a KeyError of the second leaves the first done and the handler
\* returns False
refresh_access_token(cred, answer) ==
    IF answer.kind = "ok"
    THEN [cred |-> [cred EXCEPT !.access_token = answer.access_token,
                                !.refresh_token = answer.refresh_token],
          ret |-> TRUE]
    ELSE IF answer.kind = "no_refresh_token"
    THEN [cred |-> [cred EXCEPT !.access_token = answer.access_token],
          ret |-> FALSE]
    ELSE [cred |-> cred, ret |-> FALSE]

\* what the shops endpoint can answer: 200 with code 0 and a shop, or a
\* failure (error code, no shops, HTTP status, exception)
CipherAnswers ==
    [kind : {"ok"}, cipher : 1..MaxCiphers] \cup [kind : {"failed"}, cipher : {0}]

\* get_shop_cipher: the cipher of the first shop is stored in
\* self.shop_cipher and returned; None on every failure
get_shop_cipher(cred, answer) ==
    IF answer.kind = "ok"
    THEN [cred |-> [cred EXCEPT !.shop_cipher = answer.cipher],
          ret |-> answer.cipher]
    ELSE [cred |-> cred, ret |-> None]

\* ensure_valid_token: get_shop_cipher; when that gives nothing,
\* refresh_access_token and, if it succeeded, get_shop_cipher again
ensure_valid_token(cred) ==
    LET first == {get_shop_cipher(cred, c) : c \in CipherAnswers}
        refreshed == {refresh_access_token(g.cred, r) :
                          g \in {h \in first : h.ret = None},
                          r \in RefreshAnswers}
        second == {get_shop_cipher(x.cred, c) :
                       x \in {y \in refreshed : y.ret},
                       c \in CipherAnswers}
    IN  {[cred |-> g.cred, ret |-> TRUE] : g \in {h \in first : h.ret # None}}
            \cup {[cred |-> x.cred, ret |-> FALSE] :
                      x \in {y \in refreshed : ~y.ret}}
            \cup {[cred |-> g.cred, ret |-> g.ret # None] : g \in second}

\* search_orders_for_ids, as far as the credential goes: ensure_valid_token,
\* then requests that read the credential
search_orders_for_ids(cred) == {x.cred : x \in ensure_valid_token(cred)}

\* test_api_connection: ensure_valid_token, then a search of the last day;
\* True when the token was found valid, whatever the search gave
test_api_connection(cred) ==
    LET ensured == ensure_valid_token(cred)
    IN  {[cred |-> x.cred, ret |-> FALSE] : x \in {y \in ensured : ~y.ret}}
            \cup {[cred |-> c, ret |-> TRUE] :
                      c \in UNION {search_orders_for_ids(x.cred) :
                                       x \in {y \in ensured : y.ret}}}

NoAnswer == [kind |-> "none", access_token |-> 0, refresh_token |-> 0]

NoAuth == [op |-> "none", before |-> Credential(0, 0, 0),
           after |-> Credential(0, 0, 0), ret |-> FALSE, answer |-> NoAnswer]

\* the credential the authenticator holds
CurrentCredential ==
    Credential(tiktok_access_token, tiktok_refresh_token, shop_cipher)

\* no authenticator call has been made
AuthIdle ==
    /\ tiktok_access_token = 0
    /\ tiktok_refresh_token = 0
    /\ shop_cipher = 0
    /\ lastAuth = NoAuth

\* a call has returned: the fields hold what it left, the call is recorded
AuthReturned(op, out, answer) ==
    /\ tiktok_access_token' = out.cred.access_token
    /\ tiktok_refresh_token' = out.cred.refresh_token
    /\ shop_cipher' = out.cred.shop_cipher
    /\ lastAuth' = [op |-> op, before |-> CurrentCredential,
                    after |-> out.cred, ret |-> out.ret, answer |-> answer]

RefreshAccessToken ==
    \E answer \in RefreshAnswers :
        AuthReturned("refresh_access_token",
                     refresh_access_token(CurrentCredential, answer), answer)

GetShopCipher ==
    \E answer \in CipherAnswers :
        LET g == get_shop_cipher(CurrentCredential, answer)
        IN  AuthReturned("get_shop_cipher",
                         [cred |-> g.cred, ret |-> g.ret # None], NoAnswer)

EnsureValidToken ==
    \E out \in ensure_valid_token(CurrentCredential) :
        AuthReturned("ensure_valid_token", out, NoAnswer)

TestApiConnection ==
    \E out \in test_api_connection(CurrentCredential) :
        AuthReturned("test_api_connection", out, NoAnswer)

(***************************************************************************)
(* The specifications: the request layer, the page loop and the loaders on *)
(* their own.                                                              *)
(***************************************************************************)

\* ---- the loader calls as actions ----

\* the DataFrames of the loader specification
BatchRows == {Row(a, b, 1) : a \in 1..MaxKey, b \in {None, 1}}

RECURSIVE SeqsUpTo(_, _)
SeqsUpTo(S, n) ==
    IF n = 0 THEN {<<>>}
    ELSE LET shorter == SeqsUpTo(S, n - 1)
         IN  shorter \cup {Append(q, x) : q \in shorter, x \in S}

Batches == SeqsUpTo(BatchRows, MaxBatch) \ {<<>>}

\* the TikTok DataFrames: an order of the API may come without an id
TikTokBatches ==
    SeqsUpTo(BatchRows \cup {Row(None, b, 1) : b \in {None, 1}}, MaxBatch)
        \ {<<>>}

ColumnSets == {{"k1", "k2", "v"}, {"k1", "v"}, {"v"}}

\* rows a table can hold before the first load
SeedRow == Row(1, None, 0)

NoDf == [endpoint |-> "customers", rows |-> <<>>]

LoadIdle ==
    /\ db = [t \in StagingTables |-> <<>>]
    /\ tblUnique = FALSE
    /\ db_columns = DfColumns
    /\ df = NoDf
    /\ loads = <<>>

LoadInit ==
    /\ \E seed \in {<<>>, <<SeedRow>>} : db = [t \in StagingTables |-> seed]
    /\ tblUnique \in BOOLEAN
    /\ db_columns \in ColumnSets
    /\ df \in [endpoint : MisaEndpoints, rows : Batches]
                \cup [endpoint : {TikTokTable}, rows : TikTokBatches]
    /\ loads = <<>>

\* fault is TRUE when a connection failed during the call
LoadRecord(op, r, fault) ==
    [op |-> op, table |-> df.endpoint, rows |-> df.rows, fault |-> fault,
     before |-> db[df.endpoint], after |-> r.tbl, ret |-> r.ok]

Loaded(op, r, fault) ==
    /\ db' = [db EXCEPT ![df.endpoint] = r.tbl]
    /\ loads' = Append(loads, LoadRecord(op, r, fault))
    /\ UNCHANGED <<tblUnique, db_columns, df>>

UpsertMisaData ==
    /\ Len(loads) < MaxLoads
    /\ df.endpoint \in MisaEndpoints
    /\ \E connOk \in BOOLEAN :
         Loaded("upsert",
                upsert_misa_data(db[df.endpoint], df.rows,
                                 primary_keys(df.endpoint), tblUnique,
                                 db_columns, connOk),
                ~connOk)
    /\ UNCHANGED outsideLoad

LoadDataframeToStaging ==
    /\ Len(loads) < MaxLoads
    /\ df.endpoint \in MisaEndpoints
    /\ \E engineOk \in BOOLEAN, connOk \in BOOLEAN :
         Loaded("append",
                load_dataframe_to_staging(db[df.endpoint], df.rows,
                                          primary_keys(df.endpoint), tblUnique,
                                          db_columns, engineOk, connOk),
                ~(engineOk /\ connOk))
    /\ UNCHANGED outsideLoad

LoadIncrementalOrders ==
    /\ Len(loads) < MaxLoads
    /\ df.endpoint = TikTokTable
    /\ \E engineOk \in BOOLEAN :
         Loaded("append",
                load_orders(db[TikTokTable], df.rows, primary_keys(TikTokTable),
                            tblUnique, db_columns, engineOk),
                ~engineOk)
    /\ UNCHANGED outsideLoad

\* the TikTok DAG and run_etl call transformer.validate_dataframe(df) on
\* the transformed frame before they load it
ValidateDataframe ==
    /\ Len(loads) < MaxLoads
    /\ df.endpoint = TikTokTable
    /\ loads' = Append(loads,
                       LoadRecord("validate",
                                  [ok |-> transformer_validate_dataframe(df.rows),
                                   tbl |-> db[TikTokTable]],
                                  FALSE))
    /\ UNCHANGED <<db, tblUnique, db_columns, df>>
    /\ UNCHANGED outsideLoad

LoadNext ==
    \/ UpsertMisaData
    \/ LoadDataframeToStaging
    \/ LoadIncrementalOrders
    \/ ValidateDataframe

InitLoad ==
    ReqInit /\ CfgFixed /\ ExtIdle /\ LoadInit /\ OrchIdle /\ IncIdle /\ TrIdle /\ AuthIdle

SpecLoad == InitLoad /\ [][LoadNext]_vars

\* a caller (a DAG task, the backfill, extract_incremental_data) starts an
\* extraction
ExtStart ==
    /\ epc \in {"idle", "done", "raised"}
    /\ \E e \in MisaEndpoints, mp \in {None} \cup 0..MaxPagesArg :
         StartExtractAll(e, mp)
    /\ UNCHANGED outsideExt

ExtFetchPage ==
    /\ page < MaxFetch
    /\ \E answer \in PageAnswerKinds : PageLoopStep(answer)
    /\ UNCHANGED outsideExt

ExtInit ==
    /\ page_size \in 1..MaxPageSize
    /\ max_page_size \in 1..MaxPageSize
    /\ \E n \in 0..MaxRemote : remote = [e \in StagingTables |-> n]
    /\ ExtIdle

ExtNext ==
    \/ ExtStart
    \/ ExtFetchPage

InitExtract == ReqInit /\ ExtInit /\ LoadIdle /\ OrchIdle /\ IncIdle /\ TrIdle /\ AuthIdle

SpecExtract == InitExtract /\ [][ExtNext]_vars

\* the page loop when every request is answered with its page: the loop is
\* one thread that runs on while it has not returned, so an iteration that
\* can be taken is taken
ExtFetchAnswered ==
    /\ page < MaxFetch
    /\ PageLoopStep("ok")
    /\ UNCHANGED outsideExt

ExtNextAnswered ==
    \/ ExtStart
    \/ ExtFetchAnswered

SpecExtractAnswered ==
    InitExtract /\ [][ExtNextAnswered]_vars /\ WF_vars(ExtFetchAnswered)

ReqNext ==
    \/ Tick /\ UNCHANGED outsideReq
    \/ GetAccessToken /\ UNCHANGED outsideReq
    \/ MakeRequest /\ UNCHANGED outsideReq
    \/ Attempt /\ UNCHANGED outsideReq

InitReq ==
    ReqInit /\ CfgFixed /\ ExtIdle /\ LoadIdle /\ OrchIdle /\ IncIdle /\ TrIdle /\ AuthIdle

SpecReq == InitReq /\ [][ReqNext]_vars

\* the incremental extraction: the remote collections hold one record for
\* each entry of modified
IncInit ==
    /\ modified \in SeqsUpTo(Stamps, MaxIncRecords)
    /\ lookback_hours \in 1..MaxAge
    /\ ipc = "idle"
    /\ filtered_data = <<>>
    /\ page_size \in 1..MaxPageSize
    /\ max_page_size = page_size
    /\ remote = [e \in StagingTables |-> Len(modified)]

IncNext ==
    \/ IncStart
    \/ IncFetchPage
    \/ IncFilter

InitIncremental ==
    ReqInit /\ IncInit /\ ExtIdle /\ LoadIdle /\ OrchIdle /\ TrIdle /\ AuthIdle

SpecIncremental == InitIncremental /\ [][IncNext]_vars

\* ---- the transformers on their own ----

\* the lists of orders handed to the transform calls
RawLists == SeqsUpTo(1..MaxRemote, MaxRaw)

\* an extraction has returned a list of records; both transformers are
\* constructed: MISACRMTransformer.__init__ sets batch_id to None,
\* TikTokShopOrderTransformer.__init__ to a uuid4
TrInit ==
    /\ epc = "done"
    /\ endpoint_name = "sale_orders"
    /\ max_pages = None
    /\ page = 0
    /\ all_data \in RawLists
    /\ extLog = <<>>
    /\ fetchFailed = FALSE
    /\ misa_batch_id = None
    /\ tiktok_batch_id = 1
    /\ uuids = 1
    /\ lastTransform = NoTransform
    /\ stamped = [t \in Transformers |-> <<>>]

\* a new TikTokShopOrderTransformer replaces the old one
NewTikTokTransformer ==
    /\ uuids < MaxUuids
    /\ tiktok_batch_id' = uuids + 1
    /\ uuids' = uuids + 1
    /\ stamped' = [stamped EXCEPT !["tiktok"] = <<>>]
    /\ UNCHANGED <<misa_batch_id, lastTransform>>

\* transform_all_endpoints({'sale_orders': raw}, batch_id) with the uuid4
\* the caller made: set_batch_id, then the transform of a non-empty list
TransformAllEndpoints ==
    /\ uuids < MaxUuids
    /\ uuids' = uuids + 1
    /\ misa_batch_id' = uuids + 1
    /\ \E wellFormed \in BOOLEAN :
         /\ ~wellFormed => all_data # <<>>
         /\ IF all_data = <<>> THEN UNCHANGED <<lastTransform, stamped>>
            ELSE LogTransform("misa", "sale_orders", all_data, wellFormed,
                              ~wellFormed,
                              IF wellFormed
                              THEN transform_sale_orders_flattened(all_data)
                              ELSE <<>>,
                              uuids + 1, TRUE)
    /\ UNCHANGED tiktok_batch_id

\* a transform method of the MISACRMTransformer is called directly, as the
\* orchestrator does
TransformMisaEndpoint ==
    /\ \E e \in MisaEndpoints, wellFormed \in BOOLEAN :
         /\ ~wellFormed => all_data # <<>>
         /\ LogTransform("misa", e, all_data, wellFormed, ~wellFormed,
                         IF wellFormed THEN transform_endpoint(e, all_data)
                         ELSE <<>>,
                         misa_batch_id, FALSE)
    /\ UNCHANGED <<misa_batch_id, tiktok_batch_id, uuids>>

\* transform_orders_to_dataframe(orders) is called
TransformTikTokOrders ==
    /\ \E wellFormed \in BOOLEAN :
         /\ ~wellFormed => all_data # <<>>
         /\ LogTransform("tiktok", TikTokTable, all_data, wellFormed, FALSE,
                         transform_orders_to_dataframe(all_data, wellFormed),
                         tiktok_batch_id, FALSE)
    /\ UNCHANGED <<misa_batch_id, tiktok_batch_id, uuids>>

TrNext ==
    \/ NewTikTokTransformer
    \/ TransformAllEndpoints
    \/ TransformMisaEndpoint
    \/ TransformTikTokOrders

TransformNext ==
    /\ TrNext
    /\ UNCHANGED <<reqVars, cfgVars, extVars, loadVars, orchVars, incVars, authVars>>

InitTransform ==
    ReqInit /\ CfgFixed /\ LoadIdle /\ OrchIdle /\ IncIdle /\ TrInit /\ AuthIdle

SpecTransform == InitTransform /\ [][TransformNext]_vars

\* ---- the monitor on its own ----

\* record_cycle_metrics is handed the results of a cycle
RecordCycleMetrics ==
    /\ Len(runs) < MaxRecorded
    /\ \E overall_success \in BOOLEAN, records \in 0..MaxTotal :
         /\ record_cycle_metrics(overall_success, records)
         /\ runs' = Append(runs, RunRecord(overall_success, records))
    /\ UNCHANGED <<components, cycle_count, opc, idx, resultVars, hist, faults>>
    /\ UNCHANGED <<reqVars, cfgVars, extVars, loadVars, incVars, trVars, authVars>>

InitMonitor ==
    ReqInit /\ CfgFixed /\ ExtIdle /\ LoadIdle /\ OrchIdle /\ IncIdle /\ TrIdle
        /\ AuthIdle

SpecMonitor == InitMonitor /\ [][RecordCycleMetrics]_vars

\* ---- the TikTok authenticator on its own ----

AuthInit ==
    /\ \E cred \in ConfiguredCredentials :
         /\ tiktok_access_token = cred.access_token
         /\ tiktok_refresh_token = cred.refresh_token
         /\ shop_cipher = cred.shop_cipher
    /\ lastAuth = NoAuth

AuthCalls ==
    \/ RefreshAccessToken
    \/ GetShopCipher
    \/ EnsureValidToken
    \/ TestApiConnection

AuthNext ==
    /\ AuthCalls
    /\ UNCHANGED <<reqVars, cfgVars, extVars, loadVars, orchVars, incVars, trVars>>

InitAuth ==
    ReqInit /\ CfgFixed /\ ExtIdle /\ LoadIdle /\ OrchIdle /\ IncIdle /\ TrIdle
        /\ AuthInit

SpecAuth == InitAuth /\ [][AuthNext]_vars

\* the production cycle: the staging tables start empty, with or without
\* unique keys, and the remote collections do not change
CycleInit ==
    /\ page_size \in 1..MaxPageSize
    /\ max_page_size \in 1..MaxPageSize
    /\ \E n \in 0..MaxRemote : remote = [e \in StagingTables |-> n]
    /\ ExtIdle
    /\ db = [t \in StagingTables |-> <<>>]
    /\ tblUnique \in BOOLEAN
    /\ db_columns = DfColumns
    /\ df = NoDf
    /\ loads = <<>>
    /\ OrchIdle

CycleNext ==
    \/ RunProductionCycle
    \/ MisaExtractStart
    \/ MisaFetchPage
    \/ MisaFinishEndpoint
    \/ ProcessTikTokShopData
    \/ VerifyDataQuality
    \/ FinalizeCycleResults

Init == ReqInit /\ CycleInit /\ IncIdle /\ TrIdle /\ AuthIdle

Spec == Init /\ [][CycleNext]_vars

(***************************************************************************)
(* Claims about the token cache and the request retry loop (SpecReq).      *)
(***************************************************************************)

Last(q) == q[Len(q)]

Count(q, x) == Cardinality({i \in 1..Len(q) : q[i] = x})

\* C5: get_access_token(force_refresh=false) answers from the cache, with no
\* token request, exactly when a token is cached whose expiry is later than
\* now + the refresh buffer; in every other case (nothing cached, expiry
\* within the buffer or past, force_refresh) it sends exactly one token
\* request, and on success the new token is cached with its decoded expiry.
C5_TokenCache ==
    lastGet.called =>
        LET cachedFresh ==
                /\ lastGet.tokBefore # None
                /\ lastGet.expBefore > lastGet.at + misa_crm_token_refresh_buffer
        IN  /\ (lastGet.requests = 0) <=> (~lastGet.force /\ cachedFresh)
            /\ lastGet.requests \in {0, 1}
            /\ lastGet.requests = 0 =>
                   /\ lastGet.ret = lastGet.tokBefore
                   /\ lastGet.tokAfter = lastGet.tokBefore
                   /\ lastGet.expAfter = lastGet.expBefore
            /\ (lastGet.requests = 1 /\ lastGet.answer.kind = "ok") =>
                   /\ lastGet.ret # None
                   /\ lastGet.ret # lastGet.tokBefore
                   /\ lastGet.tokAfter = lastGet.ret
                   /\ lastGet.expAfter =
                          (IF lastGet.answer.exp # 0 THEN lastGet.answer.exp
                           ELSE lastGet.at + DefaultLifetime)

\* C5 witness: an unforced call on a cached token whose expiry has passed
\* sent one request and returned a new token
C5_Witness ==
    /\ lastGet.called /\ ~lastGet.force
    /\ lastGet.tokBefore # None
    /\ lastGet.expBefore < lastGet.at
    /\ lastGet.requests = 1
    /\ lastGet.ret # None

\* C6: on a 401 the extractor forces exactly one refresh and retries exactly
\* once, with no backoff delay and without using up a transient-retry
\* attempt; a second 401 ends the call with no further request.
C6_AuthRetryOnce ==
    /\ forced <= 1
    /\ \A i \in 1..Len(sleeps) : sleeps[i][1] # "401"
    /\ Count(resps, "401") <= 2
    /\ Count(resps, "401") = 2 => (rpc = "done" /\ response = "none")
    /\ (/\ rpc = "done" /\ response = "none"
        /\ Count(resps, "401") = 1
        /\ Count(resps, "exc") = Len(resps) - 1
        /\ Count(sleeps, <<"token", api_retry_delay>>) = 0)
           => Count(resps, "exc") >= api_retry_attempts - 1

\* C7: a 5xx answer is a transient failure: the request is sent again until
\* a 200 arrives or api_retry_attempts attempts have been made.
C7_ServerErrorRetried ==
    (rpc = "done" /\ resps # <<>> /\ Last(resps) = "5xx")
        => attempt = api_retry_attempts - 1

\* C8: the call returns the first 200 obtained within api_retry_attempts
\* attempts and sends at most that many requests; it does not give up on
\* transient network failures before the attempts are used up (two failures
\* then a 200 on the third attempt return the response).
C8_RetryReturnsFirstOk ==
    /\ Len(resps) <= api_retry_attempts
    /\ \A i \in 1..Len(resps) :
          resps[i] = "200" => (i = Len(resps) /\ rpc = "done" /\ response = "ok")
    /\ response = "ok" => (resps # <<>> /\ Last(resps) = "200")
    /\ (rpc = "done" /\ response = "none" /\ Count(resps, "exc") = Len(resps))
          => attempt = api_retry_attempts - 1
    /\ (rpc = "done" /\ resps = <<"exc", "exc", "200">>) => response = "ok"

\* C8 witness: two network failures, then a 200 on the third attempt
C8_Witness ==
    /\ rpc = "done"
    /\ resps = <<"exc", "exc", "200">>
    /\ response = "ok"
    /\ Len(sleeps) = 2

(***************************************************************************)
(* Claims about the page loop (SpecExtract).                               *)
(***************************************************************************)

\* the page requests of the current call, in the order they were sent
Fetches == SelectSeq(extLog, LAMBDA ev : ev[1] = "fetch")

RECURSIVE ConcatPages(_)
ConcatPages(f) ==
    IF f = <<>> THEN <<>> ELSE ConcatPages(SubSeq(f, 1, Len(f) - 1)) \o Last(f)[5]

FullPage(batch) == batch # <<>> /\ Len(batch) >= page_size

\* C10: pages 0, 1, 2, ... are fetched in order; the loop stops after the
\* first page that is empty or shorter than the page size, or when max_pages
\* pages have been fetched; with a max_pages limit it never fetches more than
\* max_pages pages; the result is the concatenation of the fetched pages.
C10_Pagination ==
    /\ \A k \in 1..Len(Fetches) : Fetches[k][4] = k - 1
    /\ max_pages # None => Len(Fetches) <= max_pages
    /\ all_data = ConcatPages(Fetches)
    /\ \A k \in 1..(Len(Fetches) - 1) : FullPage(Fetches[k][5])
    /\ (epc = "done" /\ Fetches # <<>> /\ FullPage(Last(Fetches)[5]))
          => Len(Fetches) = max_pages
    /\ (epc = "loop" /\ Fetches # <<>>) => FullPage(Last(Fetches)[5])

\* every page request of the current call was answered with the records the
\* remote collection holds for it
EveryFetchSucceeded ==
    \A k \in DOMAIN Fetches :
        Fetches[k][5] = RemotePage(remote[endpoint_name], Fetches[k][2], Fetches[k][3])

\* C11: without a max_pages limit and with every page request succeeding,
\* the call returns the whole remote collection, each record exactly once,
\* for every endpoint, collection size and configured page size.
C11_CompleteCollection ==
    (epc = "done" /\ max_pages = None /\ EveryFetchSucceeded)
        => all_data = Range(1, remote[endpoint_name])

(***************************************************************************)
(* Claims about the loaders (SpecLoad).                                    *)
(***************************************************************************)

\* the rows of a batch have pairwise different keys
DistinctKeys(rows, pks) ==
    \A i, j \in DOMAIN rows : KeyOf(rows[i], pks) = KeyOf(rows[j], pks) => i = j

\* the rows of a batch whose key the table already holds
Colliding(tbl, rows, pks) == {i \in DOMAIN rows : Collides(tbl, rows[i], pks)}

\* C3: merging the same batch twice into a table that held none of its rows
\* adds len(batch) rows the first time and none the second time, and leaves
\* the rows' column values as they were after the first load; null key
\* values and primary keys outside the matched columns included.
C3_MergeIdempotent ==
    (/\ Len(loads) = 2
     /\ loads[1].op = "upsert" /\ loads[2].op = "upsert"
     /\ loads[1].ret /\ loads[2].ret
     /\ loads[1].before = <<>>
     /\ DistinctKeys(df.rows, primary_keys(df.endpoint)))
        => /\ Len(loads[1].after) = Len(df.rows)
           /\ loads[2].after = loads[1].after

\* C4: an append load into a table that already holds the unique keys of M of
\* the N rows of the batch inserts the other N - M rows and succeeds.
C4_AppendSkipsDuplicates ==
    \A k \in DOMAIN loads :
        LET pks == primary_keys(loads[k].table)
            rows == IF loads[k].table = TikTokTable
                    THEN prepare_dataframe_for_load(loads[k].rows)
                    ELSE loads[k].rows
            M == Cardinality(Colliding(loads[k].before, rows, pks))
        IN  (/\ loads[k].op = "append"
             /\ tblUnique /\ db_columns = DfColumns
             /\ ~loads[k].fault
             /\ validate_dataframe(rows)
             /\ DistinctKeys(rows, pks))
                => /\ loads[k].ret
                   /\ Len(loads[k].after) - Len(loads[k].before) = Len(rows) - M

(***************************************************************************)
(* Claims about the production cycle (Spec).                               *)
(***************************************************************************)

\* the phases that follow phase 1, and those that follow phase 2
AfterMisa == {"tiktok", "quality", "finalize", "returned"}

AfterTikTok == {"quality", "finalize", "returned"}

\* C1: when the processing of a MISA endpoint raises (in the extract, the
\* transform or the load), its entry is status 'error' with records 0, the
\* exception does not reach the handler of run_production_cycle or its
\* caller, and every later endpoint and the TikTok phase are processed.
C1_EndpointIsolation ==
    \A i \in DOMAIN endpoints :
        hist[endpoints[i]].raised # "none" =>
            /\ misa_results[endpoints[i]].status = "error"
            /\ misa_results[endpoints[i]].records = 0
            /\ "Cycle exception" \notin errors
            /\ opc \in {"misa"} \cup AfterMisa
            /\ opc = "misa" => idx > i
            /\ \A j \in DOMAIN endpoints :
                   (j > i /\ (opc \in AfterMisa \/ idx > j))
                       => misa_results[endpoints[j]] # NoResult
            /\ opc \in AfterMisa =>
                   \A j \in DOMAIN endpoints : misa_results[endpoints[j]] # NoResult
            /\ opc \in AfterTikTok => tiktok_result # NoResult

\* C1 witness: the transform of the first endpoint raised, the cycle has
\* returned, and the later endpoints and TikTok were loaded
C1_Witness ==
    /\ opc = "returned"
    /\ hist["sale_orders"].raised = "transform"
    /\ misa_results["sale_orders"] = ErrorResult
    /\ \A i \in 2..Len(endpoints) : misa_results[endpoints[i]].status = "success"
    /\ tiktok_result.status = "success"

\* the keys of the rows of a table
KeysOf(tbl, pks) == {KeyOf(tbl[i], pks) : i \in DOMAIN tbl}

\* C2: a second cycle over the unchanged remote data leaves every staging
\* table with the rows it had after the first cycle: the same number of rows
\* and the same keys.
C2_RerunSameRows ==
    (Len(runs) >= 2 /\ runs[2].faults = 0) =>
        \A t \in StagingTables :
            /\ Len(runs[2].db[t]) = Len(runs[1].db[t])
            /\ KeysOf(runs[2].db[t], primary_keys(t))
                   = KeysOf(runs[1].db[t], primary_keys(t))

\* C9: an endpoint one of whose page fetches came back failed after the
\* retries is recorded with status 'error', never 'no_data' or 'success'.
C9_FetchFailureIsError ==
    \A e \in MisaEndpoints :
        (hist[e].fetch_failed /\ misa_results[e] # NoResult)
            => misa_results[e].status = "error"

(***************************************************************************)
(* Claims about the incremental extraction (SpecIncremental).              *)
(***************************************************************************)

\* C12: extract_incremental_data returns exactly the extracted records that
\* have no modified_date, an unparseable one, or a parsed one at or after
\* now - lookback; a record whose date parses (with or without a time-zone
\* suffix) and is earlier is not returned.
C12_IncrementalFilter ==
    ipc = "done" =>
        filtered_data =
            SelectSeq(all_data,
                      LAMBDA rec :
                          \/ modified[rec].kind \in {"missing", "garbage"}
                          \/ modified[rec].t >= now - lookback_hours)

(***************************************************************************)
(* Claims about the transformers (SpecTransform).                          *)
(***************************************************************************)

Max(a, b) == IF a >= b THEN a ELSE b

RECURSIVE ExpectedRows(_)
\* the sum over the orders of max(1, number of child items)
ExpectedRows(raw) ==
    IF raw = <<>> THEN 0
    ELSE Max(1, Children(Head(raw))) + ExpectedRows(Tail(raw))

\* the positions of seq that satisfy Test
Positions(seq, Test(_)) == {k \in DOMAIN seq : Test(seq[k])}

IsFlattening(t) ==
    /\ t.called /\ t.wellFormed
    /\ \/ t.transformer = "tiktok"
       \/ t.transformer = "misa" /\ t.endpoint = "sale_orders"

HasNullKey(rows) == \E i \in DOMAIN rows : rows[i].k1 = None

\* C14: a non-empty row set in which some row has a null order_id is
\* rejected by validate: TikTokShopOrderTransformer.validate_dataframe
\* returns false for it, and so does TikTokShopOrderLoader._validate_dataframe
\* (load_orders then returns false and writes nothing)
C14_NullKeyRejected ==
    \A k \in DOMAIN loads :
        (loads[k].table = TikTokTable /\ HasNullKey(loads[k].rows)) =>
            /\ loads[k].ret = FALSE
            /\ loads[k].after = loads[k].before

(***************************************************************************)
(* Claims about the stages of an endpoint in a production cycle (Spec).    *)
(***************************************************************************)

\* C15: in a production cycle rows are written to the table of an endpoint
\* (MISA or TikTok orders) only after a validation of the transformed rows
\* has run and passed
C15_ValidatedBeforeLoad ==
    \A t \in StagingTables :
        hist[t].written > 0 => hist[t].validated = "passed"

\* C16: when the flattening of the extracted TikTok orders fails on a
\* malformed record, the TikTok orders endpoint ends the cycle with status
\* 'error'; it is not recorded as 'success' with the batch dropped
C16_TransformFailureIsError ==
    (/\ lastTransform.called
     /\ lastTransform.transformer = "tiktok"
     /\ lastTransform.cycle = cycle_count
     /\ ~lastTransform.wellFormed)
        => tiktok_result.status = "error"

(***************************************************************************)
(* Claims about the batch_id (SpecTransform).                              *)
(***************************************************************************)

\* C17: the rows of one transform call carry one batch_id, and a call that
\* is handed no batch_id stamps a fresh one: two such calls on the same
\* transformer instance stamp different batch_ids, neither of them null
C17_FreshBatchIdPerCall ==
    \A tr \in Transformers :
        /\ \A k \in DOMAIN stamped[tr] : stamped[tr][k] # None
        /\ Len(stamped[tr]) = 2 => stamped[tr][1] # stamped[tr][2]

(***************************************************************************)
(* Claims about the cycle result (Spec).                                   *)
(***************************************************************************)

\* the entry of table t in the results of the current cycle
Entry(t) == IF t = TikTokTable THEN tiktok_result ELSE misa_results[t]

\* C18: every status recorded in a cycle result is one of success, no_data,
\* load_failed, error (a load that reports failure gives load_failed)
C18_StatusSet ==
    \A k \in DOMAIN runs :
        \A entry \in {runs[k].misa_crm[e] : e \in MisaEndpoints}
                        \cup {runs[k].tiktok_shop} :
            entry # NoResult =>
                entry.status \in {"success", "no_data", "load_failed", "error"}

\* the rows the load of table t added, if t ended with status success
LoadedBySuccess(t) ==
    IF Entry(t).status = "success" THEN hist[t].written ELSE 0

\* C19: when a cycle has returned, total_records is the sum over the six
\* endpoints of the rows loaded by those that ended with status success;
\* the others (no_data, a failed load, error) count 0
C19_TotalRecords ==
    opc = "returned" =>
        total_records =
            LoadedBySuccess("sale_orders") + LoadedBySuccess("customers")
                + LoadedBySuccess("contacts") + LoadedBySuccess("stocks")
                + LoadedBySuccess("products") + LoadedBySuccess(TikTokTable)

\* a cycle has returned in which two endpoints loaded rows and another
\* extracted records but did not end with success
C19_Witness ==
    /\ opc = "returned"
    /\ total_records > 0
    /\ tiktok_result.status = "success" /\ hist[TikTokTable].written > 0
    /\ \E e \in MisaEndpoints :
         misa_results[e].status = "success" /\ hist[e].written > 0
    /\ \E e \in MisaEndpoints :
         misa_results[e].status \notin {"success", "no_data", "absent"}

\* C20: when a cycle has returned, success is true exactly if the errors
\* list is empty, the data-quality check passed and some endpoint (MISA or
\* TikTok orders) ended with status success
C20_SuccessFlag ==
    opc = "returned" =>
        (success <=>
            /\ errors = {}
            /\ data_quality.quality_check_passed
            /\ \E t \in StagingTables : Entry(t).status = "success")

\* a cycle has returned with success, and one without although an endpoint
\* succeeded and no error was recorded
C20_Witness ==
    /\ opc = "returned"
    /\ success
    /\ Len(runs) = 2
    /\ ~runs[1].success /\ runs[1].tiktok_shop.status = "success"

InitFailed == "Component initialization failed" \in errors

\* the staging tables as they were when the current cycle began
DbAtCycleStart ==
    IF Len(runs) <= 1 THEN [t \in StagingTables |-> <<>>]
    ELSE runs[Len(runs) - 1].db

\* C21: a cycle whose component initialization fails goes straight to its
\* return: success false, 'Component initialization failed' in errors,
\* total_records 0, no endpoint extracted, transformed or loaded, and the
\* cycle is recorded with the monitor (a failure is counted)
C21_InitFailureAborts ==
    InitFailed =>
        /\ opc \in {"finalize", "returned"}
        /\ ~success
        /\ total_records = 0
        /\ \A t \in StagingTables : Entry(t) = NoResult /\ hist[t] = NoHist
        /\ epc = "idle"
        /\ opc = "returned" =>
              /\ Len(runs) = cycle_count
              /\ ~Last(runs).success /\ Last(runs).total_records = 0
              /\ Last(runs).db = DbAtCycleStart
              /\ consecutive_failures >= 1

\* a cycle whose initialization failed after three constructors has returned
\* and the monitor has counted it
C21_Witness ==
    /\ InitFailed
    /\ opc = "returned"
    /\ components = 3
    /\ Len(runs) = 1
    /\ consecutive_failures = 1

\* the order of the priorities 1..5 of the MISA endpoints
PriorityOrder == <<"sale_orders", "customers", "contacts", "stocks", "products">>

\* C22: in a cycle the endpoints are processed one at a time in the order
\* sale_orders, customers, contacts, stocks, products, TikTok orders: while
\* an endpoint is being extracted, transformed or loaded every endpoint
\* before it has its entry (finished or failed) and no endpoint after it has
\* been started
C22_SequentialByPriority ==
    /\ opc = "misa" =>
          /\ idx \in DOMAIN PriorityOrder
          /\ epc # "idle" => endpoint_name = PriorityOrder[idx]
          /\ \A j \in DOMAIN PriorityOrder :
                IF j < idx
                THEN misa_results[PriorityOrder[j]] # NoResult
                ELSE /\ misa_results[PriorityOrder[j]] = NoResult
                     /\ hist[PriorityOrder[j]] = NoHist
          /\ tiktok_result = NoResult /\ hist[TikTokTable] = NoHist
    /\ opc = "tiktok" =>
          /\ epc = "idle"
          /\ \A j \in DOMAIN PriorityOrder :
                misa_results[PriorityOrder[j]] # NoResult
          /\ tiktok_result = NoResult

\* the third endpoint is in its page loop after the first was loaded and
\* the second failed
C22_Witness ==
    /\ opc = "misa" /\ idx = 3
    /\ epc = "loop" /\ page >= 1
    /\ endpoint_name = "contacts"
    /\ misa_results["sale_orders"].status = "success"
    /\ misa_results["customers"].status = "error"

(***************************************************************************)
(* Claims about the TikTok authenticator (SpecAuth).                       *)
(***************************************************************************)

\* C23: test_api_connection leaves the authenticator as it found it: when
\* it has returned, true or false, access_token, refresh_token and
\* shop_cipher have the values they had before the call
C23_ProbeDoesNotMutate ==
    lastAuth.op = "test_api_connection" => lastAuth.after = lastAuth.before

\* C27: refresh_access_token replaces the credential atomically: after a
\* return of false access_token and refresh_token are what they were before
\* the call, after a return of true both are those of the response
C27_RefreshAtomic ==
    lastAuth.op = "refresh_access_token" =>
        IF lastAuth.ret
        THEN /\ lastAuth.after.access_token = lastAuth.answer.access_token
             /\ lastAuth.after.refresh_token = lastAuth.answer.refresh_token
        ELSE /\ lastAuth.after.access_token = lastAuth.before.access_token
             /\ lastAuth.after.refresh_token = lastAuth.before.refresh_token

(***************************************************************************)
(* Claims about the rate limit and the termination of the page loop        *)
(* (SpecExtract).                                                          *)
(***************************************************************************)

\* two page requests of a call never follow each other without a sleep
SleepBetweenFetches ==
    \A k \in 1..(Len(extLog) - 1) :
        extLog[k][1] = "fetch" => extLog[k + 1][1] = "sleep"

\* C24: in one extract_all_data_from_endpoint call a rate-limit sleep lies
\* between every two consecutive page requests, and when the call has
\* returned no sleep follows the last page requested
C24_RateLimitBetweenPages ==
    /\ SleepBetweenFetches
    /\ (epc = "done" /\ extLog # <<>>) => Last(extLog)[1] = "fetch"

(***************************************************************************)
(* Claims about the components of the orchestrator (Spec).                 *)
(***************************************************************************)

\* C25: a cycle processes endpoints only with all six components
\* constructed: after a cycle whose initialization failed part-way the
\* next cycle initializes again before it extracts or loads anything
C25_ProcessesOnlyInitialized ==
    opc \in {"misa", "tiktok", "quality"} => components = AllComponents

\* C26: an extract_all_data_from_endpoint call without max_pages, on a
\* finite collection and with every page request answered, returns; so it
\* does for stocks, whose requests carry no page parameters
C26_ExtractionTerminates ==
    (epc = "loop" /\ max_pages = None) ~> (epc \in {"done", "raised"})

(***************************************************************************)
(* Claims about the backfill upsert (SpecLoad).                            *)
(***************************************************************************)

\* the table holds row s, as far as the matched columns go
Applied(s, tbl, cols) ==
    \E i \in DOMAIN tbl : \A c \in cols \cap DfColumns : tbl[i][c] = s[c]

\* C28: upsert_misa_data returns true only when every row of the DataFrame
\* has been inserted or updated in the target, and process_batch counts as
\* processed no more rows than were inserted or updated
C28_UpsertCountsMergedRows ==
    \A k \in DOMAIN loads :
        (loads[k].op = "upsert" /\ loads[k].ret) =>
            LET merged == {i \in DOMAIN loads[k].rows :
                              Applied(loads[k].rows[i], loads[k].after, db_columns)}
            IN  /\ merged = DOMAIN loads[k].rows
                /\ records_processed(loads[k].ret, loads[k].rows)
                       <= Cardinality(merged)

(***************************************************************************)
(* Claims about the monitor (SpecMonitor).                                 *)
(***************************************************************************)

RECURSIVE TrailingFailures(_)
\* how many of the most recent cycles in a row had success false
TrailingFailures(rs) ==
    IF rs = <<>> \/ Last(rs).success THEN 0
    ELSE 1 + TrailingFailures(SubSeq(rs, 1, Len(rs) - 1))

RECURSIVE TrailingNoData(_)
\* how many of the most recent cycles in a row had total_records 0
TrailingNoData(rs) ==
    IF rs = <<>> \/ Last(rs).total_records > 0 THEN 0
    ELSE 1 + TrailingNoData(SubSeq(rs, 1, Len(rs) - 1))

\* C29: after any sequence of record_cycle_metrics calls,
\* consecutive_failures is the number of most recent consecutive cycles
\* whose success was false: 0 after a successful cycle, one more with each
\* failed cycle
C29_ConsecutiveFailures ==
    consecutive_failures = TrailingFailures(runs)

\* two failed cycles were recorded after a successful one that followed a
\* failure
C29_Witness ==
    /\ Len(runs) = 4
    /\ ~runs[1].success /\ runs[2].success
    /\ ~runs[3].success /\ ~runs[4].success
    /\ consecutive_failures = 2

\* C30: after any sequence of record_cycle_metrics calls,
\* consecutive_no_data is the number of most recent consecutive cycles
\* whose total_records was 0, successful or failed
C30_ConsecutiveNoData ==
    consecutive_no_data = TrailingNoData(runs)

====
